---- MODULE Spec2Model ----
(***************************************************************************)
(* gen-types-enums-psql-schema: the text scanners of the CLI.              *)
(*                                                                         *)
(*   processSchemaFile   the identifier renamer                            *)
(*   generateEnumsFile   the enum extractor and the enums module           *)
(*   processSchema       the name-only pass over the declaration file      *)
(*                                                                         *)
(* A text is a sequence of tokens.  A token is one character ("[", "]",    *)
(* "'", "I", "9", ...) or a chunk of characters that the scanners never    *)
(* look inside ("export const ", " = pgEnum(", "chema", ...).  The schema   *)
(* name is "p": SCHEMA_VAR_NAME is "pSchema", SCHEMA_SUFFIX is "PS" and     *)
(* searchPattern is "InPSchema", written I.n.PS.chema.                      *)
(***************************************************************************)
EXTENDS Integers, Sequences, FiniteSets, TLC

VARIABLES
    schemaContent,    \* the declaration text handed to the scanner
    lines,            \* schemaContent.split('\n')
    pc,               \* position of the running function
    i,                \* generateEnumsFile: index of the outer loop (0-based)
    j,                \* generateEnumsFile: index of the multi-line scan
    bracketBalance,   \* generateEnumsFile: bracket balance of the scan
    values,           \* generateEnumsFile: values of the statement at hand
    match,            \* generateEnumsFile: captures of the statement at hand
    enumDefinitions,  \* generateEnumsFile: the records built so far
    enumsFile,        \* content of ENUMS_FILE, or Absent
    enumsGenerated,   \* result of generateEnumsFile
    tableMatches,     \* processSchema: table names of the name-only pass
    enumMatches,      \* processSchema: enum names of the name-only pass
    lineNo,           \* processSchemaFile: index of the line at hand (0-based)
    index,            \* processSchemaFile: cursor in the line at hand
    updatedLine,      \* processSchemaFile: output of the line at hand
    updatedContent,   \* processSchemaFile: output so far
    schemaFile,       \* content of the schema file on disk
    stmts,            \* history: one entry per recognized enum statement
    scanned,          \* history: line indices whose text the scan at hand read
    litLines,         \* history: line indices the scan at hand searched for literals
    argv,             \* the command line: schema name argument and flags
    schemaDirs,       \* fs.readdir('./schemas'): the schema directories
    dirNo,            \* batch loop: number of directories taken so far
    schema,           \* processSchema: the schema at hand (its schemaName)
    files,            \* the files of the project other than ENUMS_FILE
    commands,         \* history: the shell commands executed, in order
    used,             \* history: whose constants each part of a run used
    written,          \* history: the file operations of the run, in order
    exitCode          \* status of the process once it has ended

vars == <<schemaContent, lines, pc, i, j, bracketBalance, values, match,
          enumDefinitions, enumsFile, enumsGenerated, tableMatches,
          enumMatches, lineNo, index, updatedLine, updatedContent,
          schemaFile, stmts, scanned, litLines, argv, schemaDirs, dirNo,
          schema, files, commands, used, written, exitCode>>

enumVars == <<i, j, bracketBalance, values, match, enumDefinitions, enumsFile,
              enumsGenerated, tableMatches, enumMatches, stmts, scanned, litLines>>

renameVars == <<lineNo, index, updatedLine, updatedContent, schemaFile>>

runVars == <<argv, schemaDirs, dirNo, schema, files, commands, used, written,
             exitCode>>

----------------------------------------------------------------------------
(* Bounds of the checked texts.                                            *)

MaxLines == 3
MaxItems == 3
MaxRenameItems == 5
MaxDirs == 2
MaxLiveItems == 4

----------------------------------------------------------------------------
(* Tokens.                                                                 *)

NL == "\n"
EXPORT_CONST == "export const "
CUSTOM_ENUM == " = pSchema.enum("
PG_ENUM == " = pgEnum("
CUSTOM_TABLE == " = pSchema.table("
PG_TABLE == " = pgTable("

SCHEMA_VAR_NAME == "pSchema"
SCHEMA_SUFFIX == <<"PS">>
searchPattern == <<"I", "n", "PS", "chema">>

\* a file that does not exist
Absent == [exists |-> FALSE, content |-> <<>>]

Letters == {"u", "v", "t", "g", "x", "y", "a", "b", "I", "n", "PS", "chema", "_",
            "QS", "T", "G", "X", "Y", "Type"}
Digits == {"9"}

\* /[a-zA-Z0-9_]/ and \w
IsWord(c) == c \in Letters \cup Digits

\* ['"]
IsQuote(c) == c \in {"'", "\""}

\* \s without the line feed, which never occurs inside a line
IsSpace(c) == c = " "

----------------------------------------------------------------------------
(* Strings.                                                                *)

Min(S) == CHOOSE x \in S : \A y \in S : x <= y

\* s[k] of a 1-based sequence, or "" outside it
At(s, k) == IF k >= 1 /\ k <= Len(s) THEN s[k] ELSE ""

Contains(s, x) == \E k \in 1..Len(s) : s[k] = x

\* String.prototype.substring with 0-based bounds: a bound is clamped to
\* [0, length] and the two are swapped when start > end.
Clamp(s, k) == IF k < 0 THEN 0 ELSE IF k > Len(s) THEN Len(s) ELSE k

Substring(s, from, to) ==
    LET a == Clamp(s, from)
        b == Clamp(s, to)
        lo == IF a <= b THEN a ELSE b
        hi == IF a <= b THEN b ELSE a
    IN  SubSeq(s, lo + 1, hi)

\* a search that starts at the beginning of the string whatever the cursor
IndexOfFromStart(s, pat, from) ==
    LET hits == {k \in 0..(Len(s) - Len(pat)) :
                    SubSeq(s, k + 1, k + Len(pat)) = pat}
    IN  IF hits = {} THEN -1 ELSE CHOOSE x \in hits : \A y \in hits : x <= y

\* String.prototype.indexOf(pattern, from), 0-based, -1 when absent
IndexOf(s, pat, from) ==
    LET hits == {k \in Clamp(s, from)..(Len(s) - Len(pat)) :
                    SubSeq(s, k + 1, k + Len(pat)) = pat}
    IN  IF hits = {} THEN -1 ELSE Min(hits)

\* String.prototype.includes
Includes(s, pat) == IndexOf(s, pat, 0) # -1

\* String.prototype.split('\n'): always at least one line
RECURSIVE Split(_)
Split(text) ==
    LET p == IndexOf(text, <<NL>>, 0)
    IN  IF p = -1 THEN <<text>>
        ELSE <<SubSeq(text, 1, p)>> \o Split(SubSeq(text, p + 2, Len(text)))

\* lines[k] of a JavaScript array, 0-based: undefined outside the array
LineAt(ls, k) ==
    IF k >= 0 /\ k < Len(ls)
    THEN [defined |-> TRUE, text |-> ls[k + 1]]
    ELSE [defined |-> FALSE, text |-> <<>>]

\* a test of the empty string alone, which takes undefined for a line
FalsyEmptyOnly(line) == line.defined /\ line.text = <<>>

\* !line : undefined and the empty string are falsy
Falsy(line) == ~line.defined \/ line.text = <<>>

----------------------------------------------------------------------------
(* The regular expressions of generateEnumsFile and processSchema.         *)

NoMatch == [found |-> FALSE, name |-> <<>>, enumName |-> <<>>]

\* end of the maximal run of \w tokens that starts at s (s - 1 when empty)
WordRunEnd(line, s) ==
    LET ends == {e \in (s - 1)..Len(line) : \A m \in s..e : IsWord(line[m])}
    IN  IF ends = {} THEN s - 1
        ELSE CHOOSE e \in ends : \A d \in ends : d <= e

\* index of the first token at or after s that is not white space
SkipSpaces(line, s) ==
    IF s > Len(line) THEN s
    ELSE Min({b \in s..(Len(line) + 1) : ~IsSpace(At(line, b))})

\* `export const (\w+)${SCHEMA_SUFFIX}<keyword>` (custom) or
\* `export const (\w+)<keyword>` (standard) matched at position s:
\* \w+ is greedy and the keyword starts with a blank, so the run of word
\* tokens is the maximal one and, in the custom form, ends with the suffix.
DeclAtWith(suffix, line, s, custom, keyword) ==
    LET e == WordRunEnd(line, s + 1)
        nameEnd == IF custom THEN e - Len(suffix) ELSE e
    IN  [found |-> /\ At(line, s) = EXPORT_CONST
                   /\ nameEnd >= s + 1
                   /\ custom => SubSeq(line, nameEnd + 1, e) = suffix
                   /\ At(line, e + 1) = keyword,
         name |-> SubSeq(line, s + 1, nameEnd),
         end |-> e + 1]

\* the pattern built with the SCHEMA_SUFFIX of the module scope
DeclAt(line, s, custom, keyword) == DeclAtWith(SCHEMA_SUFFIX, line, s, custom, keyword)

\* RegExp.prototype.exec of an unanchored declaration pattern: leftmost match
ExecDeclWith(suffix, line, custom, keyword) ==
    LET starts == {s \in 1..Len(line) :
                      /\ line[s] = EXPORT_CONST
                      /\ DeclAtWith(suffix, line, s, custom, keyword).found}
    IN  IF starts = {} THEN NoMatch
        ELSE [found |-> TRUE,
              name |-> DeclAtWith(suffix, line, Min(starts), custom, keyword).name,
              enumName |-> <<>>]

ExecDecl(line, custom, keyword) == ExecDeclWith(SCHEMA_SUFFIX, line, custom, keyword)

\* the declaration pattern followed by `['"](\w+)['"],\s*\[` at position s
EnumStartAt(line, s, custom, keyword) ==
    LET d == DeclAt(line, s, custom, keyword)
        f == WordRunEnd(line, d.end + 2)
        b == SkipSpaces(line, f + 3)
    IN  [found |-> /\ d.found
                   /\ IsQuote(At(line, d.end + 1))
                   /\ f >= d.end + 2
                   /\ IsQuote(At(line, f + 1))
                   /\ At(line, f + 2) = ","
                   /\ At(line, b) = "[",
         name |-> d.name,
         enumName |-> SubSeq(line, d.end + 2, f)]

\* customEnumStartRegex.exec(line) and pgEnumStartRegex.exec(line)
ExecEnumStart(line, custom, keyword) ==
    LET starts == {s \in 1..Len(line) :
                      line[s] = EXPORT_CONST /\ EnumStartAt(line, s, custom, keyword).found}
    IN  IF starts = {} THEN NoMatch
        ELSE EnumStartAt(line, Min(starts), custom, keyword)

\* /\[(.*?)\]/u : the first "[" and the first "]" after it
singleLineBracketRegex(line) ==
    LET opens == {p \in 1..Len(line) : line[p] = "["}
        p == Min(opens)
        closes == {q \in 1..Len(line) : q > p /\ line[q] = "]"}
    IN  IF opens = {} \/ closes = {}
        THEN [found |-> FALSE, group |-> <<>>]
        ELSE [found |-> TRUE, group |-> SubSeq(line, p + 1, Min(closes) - 1)]

\* one exec of /['"]([^'"]+)['"]/gu from lastIndex (0-based): the leftmost
\* quote that is followed by at least one non-quote token and then a quote
valueRegex(text, lastIndex) ==
    LET opens == {p \in (lastIndex + 1)..Len(text) :
                    /\ IsQuote(text[p])
                    /\ p + 1 <= Len(text)
                    /\ ~IsQuote(text[p + 1])
                    /\ \E q \in (p + 2)..Len(text) : IsQuote(text[q])}
        p == Min(opens)
        q == Min({r \in (p + 2)..Len(text) : IsQuote(text[r])})
    IN  IF opens = {} THEN [found |-> FALSE, group |-> <<>>, lastIndex |-> 0]
        ELSE [found |-> TRUE, group |-> SubSeq(text, p + 1, q - 1), lastIndex |-> q]

\* a push without the includes test
PushValueNoCheck(vals, v) == IF v # <<>> THEN Append(vals, v) ELSE vals

\* if (valueMatch[1] && !values.includes(valueMatch[1])) values.push(...)
PushValue(vals, v) ==
    IF v # <<>> /\ ~Contains(vals, v) THEN Append(vals, v) ELSE vals

\* while ((valueMatch = valueRegex.exec(text)) !== null) { ... }
RECURSIVE CollectFrom(_, _, _)
CollectFrom(text, lastIndex, vals) ==
    LET m == valueRegex(text, lastIndex)
    IN  IF ~m.found THEN vals
        ELSE CollectFrom(text, m.lastIndex, PushValue(vals, m.group))

CollectValues(text, vals) == CollectFrom(text, 0, vals)

\* a character loop that counts the closing brackets only
BalanceAfterNoOpen(balance, line) ==
    balance - Cardinality({p \in 1..Len(line) : line[p] = "]"})

\* a character loop that stops at the first closing bracket of the line
BalanceAfterToClose(balance, line) ==
    LET closes == {p \in 1..Len(line) : line[p] = "]"}
        end == IF closes = {} THEN Len(line)
               ELSE CHOOSE p \in closes : \A q \in closes : p <= q
    IN  balance + Cardinality({p \in 1..end : line[p] = "["})
                - Cardinality({p \in 1..end : line[p] = "]"})

\* the character loop of the multi-line scan
BalanceAfter(balance, line) ==
    balance + Cardinality({p \in 1..Len(line) : line[p] = "["})
            - Cardinality({p \in 1..Len(line) : line[p] = "]"})

\* const match = pgMatch || customMatch
EnumMatchPgFirst(line) ==
    LET customMatch == ExecEnumStart(line, TRUE, CUSTOM_ENUM)
        pgMatch == ExecEnumStart(line, FALSE, PG_ENUM)
    IN  IF pgMatch.found THEN pgMatch ELSE customMatch

\* const match = customMatch || pgMatch
EnumMatch(line) ==
    LET customMatch == ExecEnumStart(line, TRUE, CUSTOM_ENUM)
        pgMatch == ExecEnumStart(line, FALSE, PG_ENUM)
    IN  IF customMatch.found THEN customMatch ELSE pgMatch

\* if (singleLineMatch && singleLineMatch[1])
IsSingleLine(line) ==
    LET m == singleLineBracketRegex(line)
    IN  m.found /\ m.group # <<>>

----------------------------------------------------------------------------
(* The checked declaration texts: sequences of items, an item being a      *)
(* statement opening, a quoted literal, a bracket or a line feed.          *)

\* export const uPS = pSchema.enum('x',[
CustomEnumStmt == <<EXPORT_CONST, "u", "PS", CUSTOM_ENUM, "'", "x", "'", ",", "[">>
\* export const v = pgEnum('y',[
PgEnumStmt == <<EXPORT_CONST, "v", PG_ENUM, "'", "y", "'", ",", "[">>
\* export const tPS = pSchema.table(
CustomTableStmt == <<EXPORT_CONST, "t", "PS", CUSTOM_TABLE>>
\* export const g = pgTable(
PgTableStmt == <<EXPORT_CONST, "g", PG_TABLE>>
LitA == <<"'", "a", "'">>
LitB == <<"'", "b", "'">>

ListItems == {LitA, LitB, <<"[">>, <<"]">>}
EnumItems == ListItems \cup {CustomEnumStmt, PgEnumStmt, CustomTableStmt, PgTableStmt}

RECURSIVE Flatten(_)
Flatten(items) ==
    IF Len(items) = 0 THEN <<>> ELSE Head(items) \o Flatten(Tail(items))

Count(items, x) == Cardinality({k \in 1..Len(items) : items[k] = x})

\* the texts of at most maxLines lines made of at most maxItems items
RECURSIVE Texts(_, _, _)
Texts(alphabet, maxItems, maxLines) ==
    {<<>>}
    \cup (IF maxItems > 0
          THEN {x \o t : x \in alphabet, t \in Texts(alphabet, maxItems - 1, maxLines)}
          ELSE {})
    \cup (IF maxLines > 1
          THEN {<<NL>> \o t : t \in Texts(alphabet, maxItems, maxLines - 1)}
          ELSE {})

\* any text of the items, and one standard enum statement followed by a
\* longer list body
EnumTexts ==
    Texts(EnumItems, MaxItems, MaxLines)
    \cup {PgEnumStmt \o t : t \in Texts(ListItems, MaxItems + 1, MaxLines + 1)}

----------------------------------------------------------------------------
(* The command line, the constants derived from a schema name and the      *)
(* files of the project.  A schema is named "p" or "q".                    *)

\* args.find(arg => !arg.startsWith('--')) when no argument is a name
Undefined == "undefined"

SchemaNames == {"p", "q"}

\* const schemaName = schemaNameArg, in the module scope
schemaName == argv.name

\* schemaName.charAt(0).toUpperCase() + schemaName.slice(1).replace(...) + 'S'
SuffixOf(name) == IF name = "p" THEN SCHEMA_SUFFIX ELSE <<"QS">>

\* ` = ${SCHEMA_VAR_NAME}\.table\(` and ` = ${SCHEMA_VAR_NAME}\.enum\(`
CustomTableOf(name) == IF name = "p" THEN CUSTOM_TABLE ELSE " = qSchema.table("
CustomEnumOf(name) == IF name = "p" THEN CUSTOM_ENUM ELSE " = qSchema.enum("

\* `In${...}Schema`
SearchPatternOf(name) == <<"I", "n">> \o SuffixOf(name) \o <<"chema">>

\* the path constants: a path is a kind of file and the schema in its name
ConfigFileOf(name) == <<"db.config.ts", name>>
SchemaFileOf(name) == <<"migrations/schema.ts", name>>
FinalSchemaFileOf(name) == <<"schema.ts", name>>
TypesFileOf(name) == <<"types.ts", name>>
IndexFileOf(name) == <<"index.ts", name>>
EnumsFileOf(name) == <<"enums.ts", name>>
TEMPLATE_CONFIG_FILE == <<"db.config.ts", "">>

\* the path constants of the module scope, read by createConfigFile
CONFIG_FILE == ConfigFileOf(schemaName)

Paths ==
    {TEMPLATE_CONFIG_FILE}
    \cup {ConfigFileOf(n) : n \in SchemaNames}
    \cup {SchemaFileOf(n) : n \in SchemaNames}
    \cup {FinalSchemaFileOf(n) : n \in SchemaNames}
    \cup {TypesFileOf(n) : n \in SchemaNames}
    \cup {IndexFileOf(n) : n \in SchemaNames}

Present(content) == [exists |-> TRUE, content |-> content]

NoFiles == [f \in Paths |-> Absent]

\* the state of a process that runs one scanner alone on the schema "p"
RunIdle ==
    /\ argv = [name |-> "p", typesOnly |-> FALSE, all |-> FALSE,
               removeSchema |-> FALSE, disableEslint |-> FALSE, help |-> FALSE]
    /\ schemaDirs = [ok |-> TRUE, names |-> <<>>]
    /\ dirNo = 0
    /\ schema = "p"
    /\ files = NoFiles
    /\ commands = <<>>
    /\ used = <<>>
    /\ written = <<>>
    /\ exitCode = "running"

----------------------------------------------------------------------------
(* generateEnumsFile(schemaContent) and the name-only pass of              *)
(* processSchema.                                                          *)

EnumRecord(m, vals) ==
    [variableName |-> m.name, enumName |-> m.enumName, values |-> vals]

\* a push without the length test
PushEnumAlways(defs, m, vals) ==
    Append(defs, [variableName |-> m.name, enumName |-> m.enumName, values |-> vals])

\* if (values.length > 0) enumDefinitions.push({variableName, enumName, values})
PushEnum(defs, m, vals) ==
    IF Len(vals) > 0 THEN Append(defs, EnumRecord(m, vals)) ELSE defs

\* String.prototype.toUpperCase of the first character of a token
UpperFirst(c) ==
    CASE c = "u" -> "U" [] c = "v" -> "V" [] c = "t" -> "T" [] c = "g" -> "G"
      [] c = "x" -> "X" [] c = "y" -> "Y" [] c = "a" -> "A" [] c = "b" -> "B"
      [] c = "n" -> "N" [] c = "chema" -> "Chema"
      [] OTHER -> c

\* String.prototype.toLowerCase of a token
Lower(c) ==
    CASE c = "T" -> "t" [] c = "G" -> "g" [] c = "X" -> "x" [] c = "Y" -> "y"
      [] c = "I" -> "i" [] c = "PS" -> "ps" [] c = "QS" -> "qs"
      [] OTHER -> c

\* toLowerCase of a token but for its first character
LowerRest(c) ==
    CASE c = "PS" -> "Ps" [] c = "QS" -> "Qs"
      [] OTHER -> c

\* String.prototype.split on a set of separator characters
RECURSIVE SplitOn(_, _)
SplitOn(seps, name) ==
    LET cuts == {k \in 1..Len(name) : name[k] \in seps}
    IN  IF cuts = {} THEN <<name>>
        ELSE <<SubSeq(name, 1, Min(cuts) - 1)>>
             \o SplitOn(seps, SubSeq(name, Min(cuts) + 1, Len(name)))

\* part.charAt(0).toUpperCase() + part.slice(1)
Capitalize(part) ==
    IF part = <<>> THEN <<>> ELSE <<UpperFirst(part[1])>> \o Tail(part)

\* part.charAt(0).toUpperCase() + part.slice(1).toLowerCase()
CapitalizeLower(part) ==
    IF part = <<>> THEN <<>>
    ELSE <<LowerRest(UpperFirst(part[1]))>>
         \o [k \in 1..(Len(part) - 1) |-> Lower(part[k + 1])]

\* name.split('_').map(part => ...).join('')
PascalTable(name) ==
    LET parts == SplitOn({"_"}, name)
    IN  Flatten([k \in 1..Len(parts) |-> Capitalize(parts[k])])

\* the same with the case of the characters after the first left as it is
PascalEnumKeepCase(name) ==
    LET parts == SplitOn({"_", "-"}, name)
    IN  Flatten([k \in 1..Len(parts) |-> Capitalize(parts[k])])

\* enumName.split(/[_-]/gu).map(part => ...).join('')
PascalEnum(name) ==
    LET parts == SplitOn({"_", "-"}, name)
    IN  Flatten([k \in 1..Len(parts) |-> CapitalizeLower(parts[k])])

\* the text written to ENUMS_FILE: for each record, in order, the enum with
\* its members `"value" = "value"`, the list `<name>Enums` and the type
\* `<name>Type = (typeof <name>Enums)[number]`
EnumsContent(defs) ==
    [k \in 1..Len(defs) |->
        LET typescriptEnumName == PascalEnum(defs[k].enumName) \o SCHEMA_SUFFIX
        IN  [variableName |-> defs[k].variableName,
             enum |-> typescriptEnumName,
             members |-> [m \in 1..Len(defs[k].values) |->
                             [key |-> defs[k].values[m], value |-> defs[k].values[m]]],
             list |-> typescriptEnumName \o <<"Enums">>,
             listValues |-> defs[k].values,
             type |-> typescriptEnumName \o <<"Type">>,
             typeOf |-> typescriptEnumName \o <<"Enums">>]]

\* an index file that re-exports the enums in every case
IndexContentAlways(generated) == <<"./types", "./schema", "./enums">>

\* the re-exports of INDEX_FILE
IndexContent(generated) ==
    <<"./types", "./schema">> \o (IF generated THEN <<"./enums">> ELSE <<>>)

\* a reference that never takes the suffix
TableReferenceBare(content, name, tableName) == tableName

\* usesCustomSchema ? `${tableName}${SCHEMA_SUFFIX}` : tableName
TableReference(content, name, tableName) ==
    IF Includes(content, tableName \o SuffixOf(name) \o <<CustomTableOf(name)>>)
    THEN tableName \o SuffixOf(name)
    ELSE tableName

\* the same for an enum of the name-only pass
EnumReference(content, name, enumName) ==
    IF Includes(content, enumName \o SuffixOf(name) \o <<CustomEnumOf(name)>>)
    THEN enumName \o SuffixOf(name)
    ELSE enumName

\* the aliases of one table: the select shape and the insert shape
TableAliases(content, name, tableName) ==
    <<[alias |-> PascalTable(tableName), shape |-> "TableSelect",
       of |-> TableReference(content, name, tableName)],
      [alias |-> PascalTable(tableName) \o <<"Insert">>, shape |-> "TableInsert",
       of |-> TableReference(content, name, tableName)]>>

\* the text written to TYPES_FILE
TypesContent(tables, enums, content, name, generated) ==
    [exports |-> <<"./schema">> \o (IF generated THEN <<"./enums">> ELSE <<>>),
     tables |-> Flatten([k \in 1..Len(tables) |->
                            TableAliases(content, name, tables[k])]),
     enums |-> [k \in 1..Len(enums) |->
                   [alias |-> PascalTable(enums[k]) \o <<"Type">>,
                    shape |-> "enumValues",
                    of |-> EnumReference(content, name, enums[k])]]]

\* a replace that stops after the first occurrence
ReplaceFirst(text, token, name) ==
    [k \in 1..Len(text) |->
        IF text[k] = token /\ \A m \in 1..(k - 1) : text[m] # token
        THEN name ELSE text[k]]

\* templateContent.replace(/random_schema_name/g, schemaName)
ReplaceAll(text, token, name) ==
    [k \in 1..Len(text) |-> IF text[k] = token THEN name ELSE text[k]]

InitEnum ==
    /\ schemaContent \in EnumTexts
    /\ lines = Split(schemaContent)
    /\ pc = "enums"
    /\ i = 0
    /\ j = 0
    /\ bracketBalance = 0
    /\ values = <<>>
    /\ match = NoMatch
    /\ enumDefinitions = <<>>
    /\ enumsFile = Absent
    /\ enumsGenerated = FALSE
    /\ tableMatches = <<>>
    /\ enumMatches = <<>>
    /\ lineNo = 0
    /\ index = 0
    /\ updatedLine = <<>>
    /\ updatedContent = <<>>
    /\ schemaFile = schemaContent
    /\ stmts = <<>>
    /\ scanned = {}
    /\ litLines = {}
    /\ RunIdle

\* one iteration of `for (let i = 0; i < lines.length; i++)` up to the
\* multi-line scan
EnumLine ==
    /\ pc = "enums"
    /\ i < Len(lines)
    /\ LET line == LineAt(lines, i)
           m == EnumMatch(line.text)
       IN  IF Falsy(line) \/ ~(m.found /\ m.name # <<>> /\ m.enumName # <<>>)
           THEN /\ i' = i + 1
                /\ UNCHANGED <<pc, j, bracketBalance, values, match,
                               enumDefinitions, stmts, scanned, litLines>>
           ELSE IF IsSingleLine(line.text)
           THEN LET vals == CollectValues(singleLineBracketRegex(line.text).group, <<>>)
                IN  /\ enumDefinitions' = PushEnum(enumDefinitions, m, vals)
                    /\ stmts' = Append(stmts,
                           [line |-> i, name |-> m.name, enumName |-> m.enumName,
                            values |-> vals, single |-> TRUE, balance |-> 0,
                            scanned |-> {}, litLines |-> {}])
                    /\ values' = vals
                    /\ match' = m
                    /\ i' = i + 1
                    /\ scanned' = {}
                    /\ litLines' = {}
                    /\ UNCHANGED <<pc, j, bracketBalance>>
           ELSE /\ pc' = "multi"
                /\ bracketBalance' = 1
                /\ j' = i
                /\ values' = <<>>
                /\ match' = m
                /\ scanned' = {}
                /\ litLines' = {}
                /\ UNCHANGED <<i, enumDefinitions, stmts>>
    /\ UNCHANGED <<schemaContent, lines, enumsFile, enumsGenerated, tableMatches,
                   enumMatches, renameVars>>
    /\ UNCHANGED runVars

\* one iteration of `while (j < lines.length && bracketBalance > 0)`
MultiStep ==
    /\ pc = "multi"
    /\ j < Len(lines) /\ bracketBalance > 0
    /\ j' = j + 1
    /\ LET currentLine == LineAt(lines, j + 1)
           balance == BalanceAfter(bracketBalance, currentLine.text)
       IN  IF Falsy(currentLine)
           THEN UNCHANGED <<pc, bracketBalance, values, scanned, litLines>>
           ELSE IF ~currentLine.defined
           THEN \* currentLine.length of undefined: a TypeError
                /\ pc' = "throw"
                /\ UNCHANGED <<bracketBalance, values, scanned, litLines>>
           ELSE /\ bracketBalance' = balance
                /\ values' = IF balance >= 0
                             THEN CollectValues(currentLine.text, values)
                             ELSE values
                /\ scanned' = scanned \cup {j + 1}
                /\ litLines' = IF balance >= 0 THEN litLines \cup {j + 1}
                               ELSE litLines
                /\ pc' = pc
    /\ UNCHANGED <<schemaContent, lines, i, match, enumDefinitions, enumsFile,
                   enumsGenerated, tableMatches, enumMatches, renameVars, stmts>>
    /\ UNCHANGED runVars

\* the end of the multi-line scan and of the outer iteration
MultiEnd ==
    /\ pc = "multi"
    /\ ~(j < Len(lines) /\ bracketBalance > 0)
    /\ enumDefinitions' = PushEnum(enumDefinitions, match, values)
    /\ stmts' = Append(stmts,
           [line |-> i, name |-> match.name, enumName |-> match.enumName,
            values |-> values, single |-> FALSE, balance |-> bracketBalance,
            scanned |-> scanned, litLines |-> litLines])
    /\ i' = i + 1
    /\ pc' = "enums"
    /\ UNCHANGED <<schemaContent, lines, j, bracketBalance, values, match, enumsFile,
                   enumsGenerated, tableMatches, enumMatches, renameVars, scanned,
                   litLines>>
    /\ UNCHANGED runVars

\* after the loop: return false, or write ENUMS_FILE and return true
EnumsFinish ==
    /\ pc = "enums"
    /\ i >= Len(lines)
    /\ IF Len(enumDefinitions) = 0
       THEN /\ enumsGenerated' = FALSE
            /\ UNCHANGED enumsFile
       ELSE /\ enumsFile' = [exists |-> TRUE, content |-> EnumsContent(enumDefinitions)]
            /\ enumsGenerated' = TRUE
    /\ pc' = "names"
    /\ UNCHANGED <<schemaContent, lines, i, j, bracketBalance, values, match,
                   enumDefinitions, tableMatches, enumMatches, renameVars,
                   stmts, scanned, litLines>>
    /\ UNCHANGED runVars

\* a pass that takes no name from a line
NoNamesOfLine(suffix, line, customKeyword, pgKeyword) == <<>>

\* a pass that takes the names of both forms from a line
NamesOfLineBoth(suffix, line, customKeyword, pgKeyword) ==
    LET customMatch == ExecDeclWith(suffix, line, TRUE, customKeyword)
        pgMatch == ExecDeclWith(suffix, line, FALSE, pgKeyword)
    IN  (IF customMatch.found THEN <<customMatch.name>> ELSE <<>>)
        \o (IF pgMatch.found THEN <<pgMatch.name>> ELSE <<>>)

\* the names one line adds to a list of the name-only pass: the custom form,
\* else the standard form
NamesOfLineWith(suffix, line, customKeyword, pgKeyword) ==
    LET customMatch == ExecDeclWith(suffix, line, TRUE, customKeyword)
        pgMatch == ExecDeclWith(suffix, line, FALSE, pgKeyword)
    IN  IF customMatch.found /\ customMatch.name # <<>> THEN <<customMatch.name>>
        ELSE IF pgMatch.found /\ pgMatch.name # <<>> THEN <<pgMatch.name>>
        ELSE <<>>

NamesOfLine(line, customKeyword, pgKeyword) ==
    NamesOfLineWith(SCHEMA_SUFFIX, line, customKeyword, pgKeyword)

\* for (const line of schemaLines) { if (!line) continue; ... }
RECURSIVE NamesOfWith(_, _, _, _)
NamesOfWith(suffix, ls, customKeyword, pgKeyword) ==
    IF Len(ls) = 0 THEN <<>>
    ELSE (IF Head(ls) = <<>> THEN <<>>
          ELSE NamesOfLineWith(suffix, Head(ls), customKeyword, pgKeyword))
         \o NamesOfWith(suffix, Tail(ls), customKeyword, pgKeyword)

NamesOf(ls, customKeyword, pgKeyword) ==
    NamesOfWith(SCHEMA_SUFFIX, ls, customKeyword, pgKeyword)

\* the name-only pass of processSchema
NamePass ==
    /\ pc = "names"
    /\ tableMatches' = NamesOf(lines, CUSTOM_TABLE, PG_TABLE)
    /\ enumMatches' = NamesOf(lines, CUSTOM_ENUM, PG_ENUM)
    /\ pc' = IF Len(tableMatches') = 0 /\ Len(enumMatches') = 0
             THEN "error" ELSE "done"
    /\ UNCHANGED <<schemaContent, lines, i, j, bracketBalance, values, match,
                   enumDefinitions, enumsFile, enumsGenerated, renameVars,
                   stmts, scanned, litLines>>
    /\ UNCHANGED runVars

NextEnum == EnumLine \/ MultiStep \/ MultiEnd \/ EnumsFinish \/ NamePass

SpecEnum == InitEnum /\ [][NextEnum]_vars

----------------------------------------------------------------------------
(* processSchemaFile(schemaFilePath): the identifier renamer.              *)

RenameItems == {searchPattern, <<"I">>, <<"n">>, <<"chema">>, <<"_">>, <<"9">>, <<" ">>}

\* the texts of at most MaxRenameItems items, the line feed being one
RenameTexts ==
    {Flatten(q) : q \in UNION {[1..n -> RenameItems \cup {<<NL>>}] :
                                  n \in 0..MaxRenameItems}}

\* while (startOfIdentifier > 0 && /[a-zA-Z0-9_]/u.test(line[startOfIdentifier - 1]))
\*   startOfIdentifier--;                                   (0-based)
StartOfIdentifier(line, matchIndex) ==
    Min({s \in 0..matchIndex : \A k \in (s + 1)..matchIndex : IsWord(line[k])})

\* identifierPart.length > 0 && /^[a-zA-Z0-9_]*$/u.test(identifierPart)
IsIdentifierAnyStart(part) ==
    /\ Len(part) > 0
    /\ \A k \in 1..Len(part) : IsWord(part[k])

\* identifierPart.length > 0 && /^[a-zA-Z_][a-zA-Z0-9_]*$/u.test(identifierPart)
IsIdentifier(part) ==
    /\ Len(part) > 0
    /\ part[1] \in Letters
    /\ \A k \in 2..Len(part) : IsWord(part[k])

\* an append that drops a line without characters
AppendLineSkipBlank(content, line) ==
    IF line = <<>> THEN content ELSE content \o line \o <<NL>>

\* updatedContent += updatedLine + '\n'   (and += '\n' for a falsy line)
AppendLine(content, line) == content \o line \o <<NL>>

InitRename ==
    /\ schemaFile \in RenameTexts
    /\ schemaContent = schemaFile
    /\ lines = Split(schemaContent)
    /\ pc = "rename"
    /\ lineNo = 0
    /\ index = 0
    /\ updatedLine = <<>>
    /\ updatedContent = <<>>
    /\ i = 0
    /\ j = 0
    /\ bracketBalance = 0
    /\ values = <<>>
    /\ match = NoMatch
    /\ enumDefinitions = <<>>
    /\ enumsFile = Absent
    /\ enumsGenerated = FALSE
    /\ tableMatches = <<>>
    /\ enumMatches = <<>>
    /\ stmts = <<>>
    /\ scanned = {}
    /\ litLines = {}
    /\ RunIdle

\* if (!line) { updatedContent += '\n'; continue; }
RenameBlank ==
    /\ pc = "rename"
    /\ lineNo < Len(lines)
    /\ lines[lineNo + 1] = <<>>
    /\ updatedContent' = AppendLine(updatedContent, <<>>)
    /\ lineNo' = lineNo + 1
    /\ UNCHANGED <<schemaContent, lines, pc, index, updatedLine, schemaFile, enumVars>>
    /\ UNCHANGED runVars

\* one iteration of `while (index < line.length)`
RenameStep ==
    /\ pc = "rename"
    /\ lineNo < Len(lines)
    /\ lines[lineNo + 1] # <<>>
    /\ index < Len(lines[lineNo + 1])
    /\ LET line == lines[lineNo + 1]
           matchIndex == IndexOf(line, searchPattern, index)
           startOfIdentifier == StartOfIdentifier(line, matchIndex)
           identifierPart == Substring(line, startOfIdentifier, matchIndex)
       IN  IF matchIndex = -1
           THEN /\ updatedLine' = updatedLine \o Substring(line, index, Len(line))
                /\ pc' = "eol"
                /\ UNCHANGED index
           ELSE IF IsIdentifier(identifierPart)
           THEN /\ updatedLine' = updatedLine
                                    \o Substring(line, index, startOfIdentifier)
                                    \o identifierPart \o SCHEMA_SUFFIX
                /\ index' = matchIndex + Len(searchPattern)
                /\ UNCHANGED pc
           ELSE /\ updatedLine' = updatedLine \o Substring(line, index, matchIndex + 1)
                /\ index' = matchIndex + 1
                /\ UNCHANGED pc
    /\ UNCHANGED <<schemaContent, lines, lineNo, updatedContent, schemaFile, enumVars>>
    /\ UNCHANGED runVars

\* updatedContent += updatedLine + '\n', after the break or the loop's end
RenameLineEnd ==
    /\ \/ pc = "eol"
       \/ /\ pc = "rename"
          /\ lineNo < Len(lines)
          /\ lines[lineNo + 1] # <<>>
          /\ index >= Len(lines[lineNo + 1])
    /\ updatedContent' = AppendLine(updatedContent, updatedLine)
    /\ lineNo' = lineNo + 1
    /\ index' = 0
    /\ updatedLine' = <<>>
    /\ pc' = "rename"
    /\ UNCHANGED <<schemaContent, lines, schemaFile, enumVars>>
    /\ UNCHANGED runVars

\* fs.writeFile(schemaFilePath, updatedContent); return updatedContent
RenameFinish ==
    /\ pc = "rename"
    /\ lineNo >= Len(lines)
    /\ schemaFile' = updatedContent
    /\ pc' = "renamed"
    /\ UNCHANGED <<schemaContent, lines, lineNo, index, updatedLine,
                   updatedContent, enumVars>>
    /\ UNCHANGED runVars

NextRename == RenameBlank \/ RenameStep \/ RenameLineEnd \/ RenameFinish

SpecRename == InitRename /\ [][NextRename]_vars

\* the renamer is sequential code that runs on until it returns: a step
\* that can be taken is taken
\* the texts of at most MaxLiveItems items
LiveTexts ==
    {Flatten(q) : q \in UNION {[1..n -> RenameItems \cup {<<NL>>}] :
                                  n \in 0..MaxLiveItems}}

InitRenameLive ==
    /\ InitRename
    /\ schemaFile \in LiveTexts

SpecRenameLive == InitRenameLive /\ [][NextRename]_vars /\ WF_vars(NextRename)

----------------------------------------------------------------------------
(* A run of the program: the module scope, the batch loop and              *)
(* processSchema, which calls createConfigFile, the pull command, the      *)
(* renamer, the enum extractor, the name-only pass and the emitters.       *)

\* export const t_gPS = pSchema.table(
RunCustomTable == <<EXPORT_CONST, "t", "_", "g", "PS", CUSTOM_TABLE>>
\* export const agPS = pSchema.table(
RunOtherTable == <<EXPORT_CONST, "a", "g", "PS", CUSTOM_TABLE>>
\* export const tInPSchema = pSchema.table(   as the pull command writes it
RunPulledTable == <<EXPORT_CONST, "t">> \o searchPattern \o <<CUSTOM_TABLE>>
\* export const tQS = qSchema.table(
RunQTable == <<EXPORT_CONST, "t", "QS", CustomTableOf("q")>>
\* export const v = pgEnum('xY_y',['a','b','a']
RunPgEnum ==
    <<EXPORT_CONST, "v", PG_ENUM, "'", "x", "Y", "_", "y", "'", ",", "[">>
    \o LitA \o <<",">> \o LitB \o <<",">> \o LitA \o <<"]">>
\* export const uPS = pSchema.enum('x',['b']
RunCustomEnum == CustomEnumStmt \o LitB \o <<"]">>
\* export const v = pgEnum('y',[]
RunEmptyEnum == PgEnumStmt \o <<"]">>

\* export const vType = pgTable(
RunTypeTable == <<EXPORT_CONST, "v", "Type", PG_TABLE>>

\* the declaration files of the runs
RunTexts ==
    { <<>>,
      RunTypeTable \o <<NL>> \o RunPgEnum,
      RunCustomTable \o <<NL>> \o RunPgEnum,
      RunOtherTable \o <<NL>> \o PgTableStmt \o <<NL>> \o RunCustomEnum,
      RunEmptyEnum,
      RunPulledTable \o <<NL>> \o RunPgEnum,
      RunQTable }

\* the declaration files the pull command writes
PulledTexts ==
    { <<>>,
      RunPulledTable \o <<NL>> \o RunPgEnum,
      RunQTable }

\* db.config.ts
TemplateText ==
    <<"schemaFilter: ['", "random_schema_name", "'], out: './schemas/",
      "random_schema_name", "/migrations'">>

\* the command lines
Argvs ==
    [name : {Undefined, "p"}, typesOnly : BOOLEAN, all : BOOLEAN,
     removeSchema : BOOLEAN, disableEslint : BOOLEAN, help : BOOLEAN]

\* the listings of ./schemas, of at most MaxDirs directories; ok is false
\* when ./schemas does not exist
SchemaDirs ==
    {[ok |-> FALSE, names |-> <<>>]}
    \cup {[ok |-> TRUE, names |-> d] :
             d \in {e \in UNION {[1..n -> SchemaNames] : n \in 0..MaxDirs} :
                       \A a, b \in 1..Len(e) : e[a] = e[b] => a = b}}

\* the files at the start of a run: the config files, the template and the
\* declaration file left by an earlier run, at its final place, in the
\* migrations directory, at both or at neither
FilesAtStart(hasConfig, hasTemplate, place, text) ==
    [f \in Paths |->
        IF f = TEMPLATE_CONFIG_FILE
        THEN (IF hasTemplate THEN Present(TemplateText) ELSE Absent)
        ELSE IF f[1] = "db.config.ts"
        THEN (IF hasConfig THEN Present(<<"schemaFilter: ['", f[2], "']">>) ELSE Absent)
        ELSE IF f[1] = "schema.ts" /\ place \in {"final", "both"} THEN Present(text)
        ELSE IF f[1] = "migrations/schema.ts" /\ place \in {"migrations", "both"}
        THEN Present(text)
        ELSE Absent]

InitRun ==
    /\ argv \in Argvs
    /\ schemaDirs \in SchemaDirs
    /\ argv.all \/ schemaDirs = [ok |-> TRUE, names |-> <<>>]
    /\ \E hasConfig \in BOOLEAN, hasTemplate \in BOOLEAN,
          place \in {"neither", "final", "migrations", "both"}, text \in RunTexts :
          files = FilesAtStart(hasConfig, hasTemplate, place, text)
    /\ pc = "start"
    /\ dirNo = 0
    /\ schema = Undefined
    /\ commands = <<>>
    /\ used = <<>>
    /\ written = <<>>
    /\ exitCode = "running"
    /\ schemaContent = <<>>
    /\ lines = <<>>
    /\ i = 0
    /\ j = 0
    /\ bracketBalance = 0
    /\ values = <<>>
    /\ match = NoMatch
    /\ enumDefinitions = <<>>
    /\ enumsFile = Absent
    /\ enumsGenerated = FALSE
    /\ tableMatches = <<>>
    /\ enumMatches = <<>>
    /\ lineNo = 0
    /\ index = 0
    /\ updatedLine = <<>>
    /\ updatedContent = <<>>
    /\ schemaFile = <<>>
    /\ stmts = <<>>
    /\ scanned = {}
    /\ litLines = {}

\* one entry of the history of the parts of a run
Use(part, name) == [part |-> part, constants |-> name, schema |-> schema]

\* one entry of the history of the file operations
FileOp(op, path, ok) == [op |-> op, path |-> path, ok |-> ok, schema |-> schema]

\* a run that pulls the schema in every mode
AfterConfigPull(typesOnly) == "pull"

\* if (!typesOnly) { pull } : the step that follows createConfigFile()
AfterConfig(typesOnly) == IF typesOnly THEN "verify" ELSE "pull"

\* an unlink that leaves the file where it is
UnlinkedNot(fs, path) == fs

\* the file table after fs.unlink(path) has succeeded
Unlinked(fs, path) == [fs EXCEPT ![path] = Absent]

\* a types-only run that renames whatever the file holds
NeedsRenamerAlways(typesOnly, content, pattern) == typesOnly

\* if (typesOnly && schemaContent.includes(searchPattern))
NeedsRenamer(typesOnly, content, pattern) == typesOnly /\ Includes(content, pattern)

\* the entry of processSchemaFile(path): the file is read and split
StartRenamer(content) ==
    /\ schemaContent' = content
    /\ schemaFile' = content
    /\ lines' = Split(content)
    /\ lineNo' = 0
    /\ index' = 0
    /\ updatedLine' = <<>>
    /\ updatedContent' = <<>>
    /\ pc' = "rename"
    /\ used' = Append(used, Use("processSchemaFile", schemaName))
    /\ UNCHANGED enumVars

\* the entry of generateEnumsFile(content)
StartEnums(content) ==
    /\ schemaContent' = content
    /\ lines' = Split(content)
    /\ i' = 0
    /\ j' = 0
    /\ bracketBalance' = 0
    /\ values' = <<>>
    /\ match' = NoMatch
    /\ enumDefinitions' = <<>>
    /\ enumsGenerated' = FALSE
    /\ stmts' = <<>>
    /\ scanned' = {}
    /\ litLines' = {}
    /\ pc' = "enums"
    /\ used' = Append(used, Use("generateEnumsFile", schemaName))
    /\ UNCHANGED <<enumsFile, tableMatches, enumMatches>>

\* the module scope: the arguments, the help text, the constants of the
\* module scope, then the batch loop or processSchema(schemaName)
Start ==
    /\ pc = "start"
    /\ IF argv.help \/ (argv.name = Undefined /\ ~argv.all)
       THEN /\ pc' = "exit"
            /\ exitCode' = IF argv.help THEN "0" ELSE "1"
            /\ UNCHANGED schema
       ELSE IF argv.name = Undefined
       THEN \* schemaName.charAt(0) of undefined: a TypeError that nothing catches
            /\ pc' = "error"
            /\ UNCHANGED <<schema, exitCode>>
       ELSE IF argv.all
       THEN IF schemaDirs.ok
            THEN /\ pc' = "batch"
                 /\ UNCHANGED <<schema, exitCode>>
            ELSE /\ pc' = "exit"
                 /\ exitCode' = "1"
                 /\ UNCHANGED schema
       ELSE /\ pc' = "config"
            /\ schema' = argv.name
            /\ UNCHANGED exitCode
    /\ UNCHANGED <<schemaContent, lines, enumVars, renameVars, argv, schemaDirs,
                   dirNo, files, commands, used, written>>

\* for (const schema of schemaDirs) { await processSchema(schema); }
\* process.exit(0);
BatchNext ==
    /\ pc = "batch"
    /\ IF dirNo < Len(schemaDirs.names)
       THEN /\ schema' = schemaDirs.names[dirNo + 1]
            /\ dirNo' = dirNo + 1
            /\ pc' = "config"
            /\ UNCHANGED exitCode
       ELSE /\ pc' = "exit"
            /\ exitCode' = "0"
            /\ UNCHANGED <<schema, dirNo>>
    /\ UNCHANGED <<schemaContent, lines, enumVars, renameVars, argv, schemaDirs,
                   files, commands, used, written>>

\* the entry of processSchema and createConfigFile()
CreateConfig ==
    /\ pc = "config"
    /\ used' = Append(used, Use("createConfigFile", schemaName))
    /\ IF files[CONFIG_FILE].exists
       THEN /\ pc' = AfterConfig(argv.typesOnly)
            /\ UNCHANGED <<files, written>>
       ELSE IF ~files[TEMPLATE_CONFIG_FILE].exists
       THEN /\ pc' = "error"
            /\ UNCHANGED <<files, written>>
       ELSE /\ files' = [files EXCEPT ![CONFIG_FILE] =
                           Present(ReplaceAll(files[TEMPLATE_CONFIG_FILE].content,
                                              "random_schema_name", schemaName))]
            /\ written' = Append(written, FileOp("write", CONFIG_FILE, TRUE))
            /\ pc' = AfterConfig(argv.typesOnly)
    /\ UNCHANGED <<schemaContent, lines, enumVars, renameVars, argv, schemaDirs,
                   dirNo, schema, commands, exitCode>>

\* if (!typesOnly) { await execAsync(`drizzle-kit pull ...`);
\*                   await processSchemaFile(SCHEMA_FILE); }
\* the command fails, or it writes a declaration file
Pull ==
    /\ pc = "pull"
    /\ commands' = Append(commands, [command |-> "drizzle-kit pull",
                                     config |-> ConfigFileOf(schema)])
    /\ \/ /\ pc' = "error"
          /\ UNCHANGED <<schemaContent, lines, enumVars, renameVars, files, used,
                         written>>
       \/ \E text \in PulledTexts :
             /\ files' = [files EXCEPT ![SchemaFileOf(schema)] = Present(text)]
             /\ StartRenamer(text)
             /\ UNCHANGED written
    /\ UNCHANGED <<argv, schemaDirs, dirNo, schema, exitCode>>

\* a search that takes the final location first in every mode
ReadPathFinalFirst(typesOnly, fs, name) ==
    IF fs[FinalSchemaFileOf(name)].exists
    THEN FinalSchemaFileOf(name)
    ELSE SchemaFileOf(name)

\* schemaFilePath: in types-only mode the final location when the file is
\* there, else (and in full mode) the migrations directory
ReadPath(typesOnly, fs, name) ==
    IF typesOnly /\ fs[FinalSchemaFileOf(name)].exists
    THEN FinalSchemaFileOf(name)
    ELSE SchemaFileOf(name)

\* the path that processSchema reads and hands to processSchemaFile
RenamedPath == ReadPath(argv.typesOnly, files, schema)

\* the return of processSchemaFile: the file it wrote is in the file table
AfterRename ==
    /\ pc = "renamed"
    /\ files' = [files EXCEPT ![RenamedPath] = Present(schemaFile)]
    /\ written' = Append(written, FileOp("write", RenamedPath, TRUE))
    /\ IF argv.typesOnly
       THEN /\ StartEnums(updatedContent)
            /\ UNCHANGED renameVars
       ELSE /\ pc' = "verify"
            /\ UNCHANGED <<schemaContent, lines, enumVars, renameVars, used>>
    /\ UNCHANGED <<argv, schemaDirs, dirNo, schema, commands, exitCode>>

\* the search for the declaration file, the renamer in types-only mode when
\* the file holds the search pattern, and the call of generateEnumsFile
Verify ==
    /\ pc = "verify"
    /\ LET path == RenamedPath
           content == files[path].content
       IN  IF ~files[path].exists
           THEN /\ pc' = "error"
                /\ UNCHANGED <<schemaContent, lines, enumVars, renameVars, used>>
           ELSE IF NeedsRenamer(argv.typesOnly, content, SearchPatternOf(schema))
           THEN StartRenamer(content)
           ELSE /\ StartEnums(content)
                /\ UNCHANGED renameVars
    /\ UNCHANGED <<argv, schemaDirs, dirNo, schema, files, commands, written,
                   exitCode>>

\* the return of generateEnumsFile and the name-only pass, with the
\* constants that processSchema declares for the schema at hand
RunNamePass ==
    /\ pc = "names"
    /\ tableMatches' = NamesOfWith(SuffixOf(schema), lines, CustomTableOf(schema), PG_TABLE)
    /\ enumMatches' = NamesOfWith(SuffixOf(schema), lines, CustomEnumOf(schema), PG_ENUM)
    /\ pc' = IF Len(tableMatches') = 0 /\ Len(enumMatches') = 0
             THEN "error" ELSE "emit"
    /\ used' = Append(used, Use("names", schema))
    /\ written' = IF enumsGenerated
                  THEN Append(written, FileOp("write", EnumsFileOf(schemaName), TRUE))
                  ELSE written
    /\ UNCHANGED <<schemaContent, lines, i, j, bracketBalance, values, match,
                   enumDefinitions, enumsFile, enumsGenerated, renameVars,
                   stmts, scanned, litLines>>
    /\ UNCHANGED <<argv, schemaDirs, dirNo, schema, files, commands, exitCode>>

\* the types module and the index file
Emit ==
    /\ pc = "emit"
    /\ files' = [files EXCEPT
           ![TypesFileOf(schema)] =
               Present(TypesContent(tableMatches, enumMatches, schemaContent,
                                    schema, enumsGenerated)),
           ![IndexFileOf(schema)] = Present(IndexContent(enumsGenerated))]
    /\ written' = written \o <<FileOp("write", TypesFileOf(schema), TRUE),
                               FileOp("write", IndexFileOf(schema), TRUE)>>
    /\ used' = used \o <<Use("types", schema), Use("index", schema)>>
    /\ pc' = IF argv.typesOnly THEN "eslint" ELSE "move"
    /\ UNCHANGED <<schemaContent, lines, enumVars, renameVars, argv, schemaDirs,
                   dirNo, schema, commands, exitCode>>

\* if (!typesOnly) { copyFile(SCHEMA_FILE, FINAL_SCHEMA_FILE);
\*                   removeDirRecursive(MIGRATIONS_DIR); }
\* a failure of the copy or of the removal is reported and the run goes on
Move ==
    /\ pc = "move"
    /\ LET from == SchemaFileOf(schema)
           to == FinalSchemaFileOf(schema)
       IN  \/ /\ files[from].exists
              /\ files' = [files EXCEPT ![to] = files[from], ![from] = Absent]
              /\ written' = Append(written, FileOp("copy", to, TRUE))
           \/ /\ files[from].exists
              /\ files' = [files EXCEPT ![to] = files[from]]
              /\ written' = Append(written, FileOp("copy", to, TRUE))
           \/ /\ UNCHANGED files
              /\ written' = Append(written, FileOp("copy", to, FALSE))
    /\ pc' = "eslint"
    /\ UNCHANGED <<schemaContent, lines, enumVars, renameVars, argv, schemaDirs,
                   dirNo, schema, commands, used, exitCode>>

\* await execAsync(`npx eslint ./schemas/${schemaName} --fix`), whose
\* failure is reported and nothing more
Eslint ==
    /\ pc = "eslint"
    /\ commands' = Append(commands, [command |-> "npx eslint",
                                     config |-> <<"schemas", schema>>])
    /\ pc' = "remove"
    /\ UNCHANGED <<schemaContent, lines, enumVars, renameVars, argv, schemaDirs,
                   dirNo, schema, files, used, written, exitCode>>

\* if (removeSchema) { try { unlink(FINAL_SCHEMA_FILE) } catch { report } }
\* and the end of processSchema
Remove ==
    /\ pc = "remove"
    /\ IF argv.removeSchema
       THEN LET path == FinalSchemaFileOf(schema)
            IN  \/ /\ files[path].exists
                   /\ files' = Unlinked(files, path)
                   /\ written' = Append(written, FileOp("unlink", path, TRUE))
                \/ /\ UNCHANGED files
                   /\ written' = Append(written, FileOp("unlink", path, FALSE))
       ELSE UNCHANGED <<files, written>>
    /\ pc' = IF argv.all THEN "batch" ELSE "exit"
    /\ exitCode' = IF argv.all THEN exitCode ELSE "0"
    /\ UNCHANGED <<schemaContent, lines, enumVars, renameVars, argv, schemaDirs,
                   dirNo, schema, commands, used>>

NextRun ==
    \/ Start \/ BatchNext \/ CreateConfig \/ Pull
    \/ RenameBlank \/ RenameStep \/ RenameLineEnd \/ RenameFinish \/ AfterRename
    \/ Verify
    \/ EnumLine \/ MultiStep \/ MultiEnd \/ EnumsFinish
    \/ RunNamePass \/ Emit \/ Move \/ Eslint \/ Remove

SpecRun == InitRun /\ [][NextRun]_vars

----------------------------------------------------------------------------
(* Properties of the renamer.                                              *)

\* searchPattern occurs in the line at 0-based position k
OccursAt(line, k) ==
    /\ k + Len(searchPattern) <= Len(line)
    /\ SubSeq(line, k + 1, k + Len(searchPattern)) = searchPattern

\* the maximal run of letters, digits and underscores immediately before
\* position k is non-empty and starts with a letter or an underscore
Qualifies(line, k) ==
    \E s \in 0..(k - 1) :
        /\ \A m \in (s + 1)..k : IsWord(line[m])
        /\ s = 0 \/ ~IsWord(line[s])
        /\ line[s + 1] \in Letters

QualifyingAt(line, k) == OccursAt(line, k) /\ Qualifies(line, k)

\* the line with the pattern text of every qualifying occurrence replaced
\* by the suffix and every other token kept
Renamed(line) ==
    Flatten([p \in 1..Len(line) |->
        IF QualifyingAt(line, p - 1) THEN SCHEMA_SUFFIX
        ELSE IF \E k \in 0..(p - 2) :
                    QualifyingAt(line, k) /\ p <= k + Len(searchPattern)
             THEN <<>>
             ELSE <<line[p]>>])

OutputLines == Split(updatedContent)

\* C6: when the renamer has finished, output line k is input line k with
\* the pattern text of each qualifying occurrence replaced by the suffix
\* and every other character emitted once, in order.
C6_EachOccurrenceReplacedOnce ==
    pc = "renamed" =>
        \A k \in 1..Len(lines) : OutputLines[k] = Renamed(lines[k])

\* C7: a step of the scan that handles an occurrence renames it (drops the
\* pattern text, emits the suffix, moves the cursor past the match) if and
\* only if the occurrence qualifies; otherwise it emits the text up to and
\* including the first character of the match and moves one position on.
C7_Step ==
    (pc = "rename" /\ lineNo' = lineNo /\ index' # index) =>
        LET line == lines[lineNo + 1]
            m == IndexOf(line, searchPattern, index)
        IN  /\ m # -1
            /\ IF Qualifies(line, m)
               THEN /\ index' = m + Len(searchPattern)
                    /\ SubSeq(updatedLine', Len(updatedLine') - Len(SCHEMA_SUFFIX) + 1,
                              Len(updatedLine')) = SCHEMA_SUFFIX
               ELSE /\ index' = m + 1
                    /\ updatedLine' = updatedLine \o SubSeq(line, index + 1, m + 1)

C7_RenamedIffIdentifierPrefix == [][C7_Step]_vars

\* C7 witness: in `9InPSchema nInPSchema` the occurrence after the digit
\* has been left alone and the one after the letter has been renamed
C7_Witness ==
    /\ pc = "renamed"
    /\ schemaContent = <<"9">> \o searchPattern \o <<" ", "n">> \o searchPattern
    /\ updatedContent = <<"9">> \o searchPattern \o <<" ", "n", "PS", NL>>

\* C8: a text without the pattern is returned, and written back, unchanged.
C8_AbsentPatternUnchanged ==
    (pc = "renamed" /\ ~Includes(schemaContent, searchPattern)) =>
        /\ updatedContent = schemaContent
        /\ schemaFile = schemaContent

----------------------------------------------------------------------------
(* Properties of the enum extractor: reference definitions.                *)

\* the quoted literals of a text, left to right: the quotes taken in pairs
RECURSIVE Literals(_)
Literals(text) ==
    LET qs == {p \in 1..Len(text) : IsQuote(text[p])}
    IN  IF Cardinality(qs) < 2 THEN <<>>
        ELSE LET p == Min(qs)
                 q == Min(qs \ {p})
             IN  (IF q = p + 1 THEN <<>> ELSE <<SubSeq(text, p + 1, q - 1)>>)
                 \o Literals(SubSeq(text, q + 1, Len(text)))

\* the literals of lines ls[from + 1], ..., ls[to + 1] (0-based from..to)
RECURSIVE LiteralsOfLines(_, _, _)
LiteralsOfLines(ls, from, to) ==
    IF from > to \/ from >= Len(ls) THEN <<>>
    ELSE Literals(ls[from + 1]) \o LiteralsOfLines(ls, from + 1, to)

\* the literals of the lines whose 0-based index is in the set, top to bottom
LiteralsOfSet(ls, set) ==
    Flatten([k \in 1..Len(ls) |-> IF (k - 1) \in set THEN Literals(ls[k]) ELSE <<>>])

\* a sequence without its repetitions, first occurrences kept in order
RECURSIVE Distinct(_)
Distinct(q) ==
    IF Len(q) = 0 THEN <<>>
    ELSE LET d == Distinct(SubSeq(q, 1, Len(q) - 1))
         IN  IF Contains(d, q[Len(q)]) THEN d ELSE Append(d, q[Len(q)])

NoDuplicates(q) == \A a, b \in 1..Len(q) : q[a] = q[b] => a = b

IsPrefix(a, b) == Len(a) <= Len(b) /\ SubSeq(b, 1, Len(a)) = a

\* the line holds the text of the custom (standard) enum statement
HasCustomEnum(line) == Includes(line, CustomEnumStmt)
HasPgEnum(line) == Includes(line, PgEnumStmt)

\* 1-based position, in its line, of the opening bracket of the statement
\* that entry s of the history stands for
OpenPos(s) ==
    LET line == lines[s.line + 1]
    IN  IF HasCustomEnum(line)
        THEN IndexOf(line, CustomEnumStmt, 0) + Len(CustomEnumStmt)
        ELSE IndexOf(line, PgEnumStmt, 0) + Len(PgEnumStmt)

\* the text after the opening bracket of s, to the end of the file
RECURSIVE Join(_)
Join(ls) ==
    IF Len(ls) = 0 THEN <<>>
    ELSE IF Len(ls) = 1 THEN ls[1]
    ELSE ls[1] \o <<NL>> \o Join(Tail(ls))

AfterOpen(s) ==
    LET line == lines[s.line + 1]
    IN  Join(<<SubSeq(line, OpenPos(s) + 1, Len(line))>>
             \o SubSeq(lines, s.line + 2, Len(lines)))

\* position in text of the bracket that closes an already open one, or 0
RECURSIVE CloseFrom(_, _, _)
CloseFrom(text, k, depth) ==
    IF k > Len(text) THEN 0
    ELSE IF text[k] = "]" /\ depth = 1 THEN k
    ELSE CloseFrom(text, k + 1,
                   IF text[k] = "[" THEN depth + 1
                   ELSE IF text[k] = "]" THEN depth - 1 ELSE depth)

ClosePos(s) == CloseFrom(AfterOpen(s), 1, 1)

\* the bracket of s is closed somewhere in the file
Closes(s) == ClosePos(s) # 0

\* 0-based index of the line that holds the closing bracket of s
CloseLine(s) ==
    s.line + Count(SubSeq(AfterOpen(s), 1, ClosePos(s)), NL)

\* the literals written between the opening bracket of s and its closing one
ListLiterals(s) ==
    LET body == Split(SubSeq(AfterOpen(s), 1, ClosePos(s) - 1))
    IN  LiteralsOfLines(body, 0, Len(body) - 1)

\* the first "[" of the line and the first "]" after it, as a pair
HasClosedPair(line) ==
    \E p, q \in 1..Len(line) : p < q /\ line[p] = "[" /\ line[q] = "]"

InsidePair(line) ==
    LET p == Min({k \in 1..Len(line) : line[k] = "["})
        q == Min({k \in 1..Len(line) : k > p /\ line[k] = "]"})
    IN  SubSeq(line, p + 1, q - 1)

\* the declaration line of s holds no bracket but the opening one of s
OnlyOpeningBracket(s) ==
    LET line == lines[s.line + 1]
    IN  \A k \in 1..Len(line) : line[k] \in {"[", "]"} => k = OpenPos(s)

\* the text the extractor searched for the literals of s
SearchedLiterals(s) ==
    IF s.single THEN Literals(InsidePair(lines[s.line + 1]))
    ELSE LiteralsOfSet(lines, s.litLines)

\* the records are the statements of the history that collected a value
RECURSIVE RecordsOf(_)
RecordsOf(hist) ==
    IF Len(hist) = 0 THEN <<>>
    ELSE LET s == hist[Len(hist)]
             front == RecordsOf(SubSeq(hist, 1, Len(hist) - 1))
         IN  IF Len(s.values) > 0
             THEN Append(front, [variableName |-> s.name, enumName |-> s.enumName,
                                 values |-> s.values])
             ELSE front

Stmts == {stmts[k] : k \in 1..Len(stmts)}

----------------------------------------------------------------------------
(* Properties of the enum extractor.                                       *)

\* C1: the values of every recognized statement hold no duplicates and are
\* the literals of the searched text in the order of their first
\* occurrence, in the single-line and in the multi-line form.
C1_DistinctFirstSeen ==
    /\ \A s \in Stmts :
          /\ NoDuplicates(s.values)
          /\ s.values = Distinct(SearchedLiterals(s))
    /\ \A k \in 1..Len(enumDefinitions) : NoDuplicates(enumDefinitions[k].values)

\* C1 witness: ['a','b','a'] on one line has yielded ['a','b']
C1_Witness ==
    \E s \in Stmts :
        /\ s.single
        /\ SearchedLiterals(s) = <<<<"a">>, <<"b">>, <<"a">>>>
        /\ s.values = <<<<"a">>, <<"b">>>>
        /\ \E k \in 1..Len(enumDefinitions) : enumDefinitions[k].values = s.values

\* the literals of the lines strictly between the opening bracket of s and
\* the line of its closing bracket, without repetitions
BetweenLiterals(s) ==
    Distinct(LiteralsOfLines(lines, s.line + 1, CloseLine(s) - 1))

\* C2 as stated: when the bracket of a statement closes on a later line,
\* the literals of the lines strictly between are the first values of the
\* statement, top to bottom and left to right.
C2_BetweenCollected ==
    \A s \in Stmts :
        (Closes(s) /\ CloseLine(s) > s.line) =>
            IsPrefix(BetweenLiterals(s), s.values)

\* C2 amended: the same, for a statement whose declaration line holds no
\* bracket but its opening one.
C2_BetweenCollectedOneBracket ==
    \A s \in Stmts :
        (Closes(s) /\ CloseLine(s) > s.line /\ OnlyOpeningBracket(s)) =>
            /\ IsPrefix(BetweenLiterals(s), s.values)
            /\ BetweenLiterals(s) # <<>> =>
                  \E k \in 1..Len(enumDefinitions) :
                      /\ enumDefinitions[k].variableName = s.name
                      /\ enumDefinitions[k].values = s.values

\* C2 witness: the bracket opened on line N closes on line N + 3 and the
\* literals of lines N + 1 and N + 2 have been collected in order
C2_Witness ==
    \E s \in Stmts :
        /\ Closes(s) /\ OnlyOpeningBracket(s)
        /\ CloseLine(s) = s.line + 3
        /\ Literals(lines[s.line + 2]) = <<<<"b">>>>
        /\ Literals(lines[s.line + 3]) = <<<<"a">>>>
        /\ s.values = <<<<"b">>, <<"a">>>>
        /\ \E k \in 1..Len(enumDefinitions) : enumDefinitions[k].values = s.values

\* the list of s is a plain list: no bracket before the opening one on the
\* declaration line and none inside the list
PlainList(s) ==
    /\ \A k \in 1..(OpenPos(s) - 1) : lines[s.line + 1][k] \notin {"[", "]"}
    /\ ~Contains(SubSeq(AfterOpen(s), 1, ClosePos(s) - 1), "[")

\* C3: every literal written between the opening bracket of a statement
\* and its closing bracket is a value of the statement, the literals on the
\* declaration line included (stated for the plain lists).
C3_AllListLiterals ==
    \A s \in Stmts :
        (Closes(s) /\ PlainList(s)) =>
            \A k \in 1..Len(ListLiterals(s)) : Contains(s.values, ListLiterals(s)[k])

\* C4: when the declaration line holds a closed bracket pair, the values
\* are the distinct literals inside the pair and no later line adds one;
\* for [] there is no value.
C4_ClosedPairOnly ==
    \A s \in Stmts :
        HasClosedPair(lines[s.line + 1]) =>
            s.values = Distinct(Literals(InsidePair(lines[s.line + 1])))

\* C5: every record has a value, a statement that collected none has no
\* record, and without a record the enums module is not written.
C5_NoEmptyRecord ==
    /\ \A k \in 1..Len(enumDefinitions) : Len(enumDefinitions[k].values) >= 1
    /\ enumDefinitions = RecordsOf(stmts)
    /\ (pc \in {"names", "done", "error"} /\ Len(enumDefinitions) = 0) =>
          (enumsFile = Absent /\ ~enumsGenerated)
    /\ enumsFile # Absent => Len(enumDefinitions) > 0

\* C5 witness: the only statement collected no value, nothing was recorded
\* and no enums module exists at the end
C5_Witness ==
    /\ pc = "done"
    /\ Len(stmts) = 1
    /\ stmts[1].values = <<>>
    /\ enumDefinitions = <<>>
    /\ enumsFile = Absent

\* the names the name-only pass is to take from a line of the checked texts
ExpectedNames(line, customStmt, customName, pgStmt, pgName) ==
    IF Includes(line, customStmt) THEN <<customName>>
    ELSE IF Includes(line, pgStmt) THEN <<pgName>>
    ELSE <<>>

\* C9: the names of a line that matches both forms are those of the custom
\* form; the name-only pass adds the standard form's name of a line only
\* when the custom form does not match the line.
C9_CustomFirst ==
    /\ \A s \in Stmts :
          HasCustomEnum(lines[s.line + 1]) =>
              (s.name = <<"u">> /\ s.enumName = <<"x">>)
    /\ pc \in {"done", "error"} =>
          /\ enumMatches = Flatten([k \in 1..Len(lines) |->
                 ExpectedNames(lines[k], CustomEnumStmt, <<"u">>, PgEnumStmt, <<"v">>)])
          /\ tableMatches = Flatten([k \in 1..Len(lines) |->
                 ExpectedNames(lines[k], SubSeq(CustomTableStmt, 1, 4), <<"t">>,
                               PgTableStmt, <<"g">>)])

\* C9 witness: a line holds the standard statement and then the custom one,
\* and both passes have taken the custom names
C9_Witness ==
    /\ pc = "done"
    /\ \E s \in Stmts :
          LET line == lines[s.line + 1]
          IN  /\ HasCustomEnum(line) /\ HasPgEnum(line)
              /\ IndexOf(line, PgEnumStmt, 0) < IndexOf(line, CustomEnumStmt, 0)
              /\ s.name = <<"u">>
    /\ enumMatches = <<<<"u">>>>

\* C10: a statement whose bracket never closes makes the extractor neither
\* throw nor read a line past the end of the file as text; its values are
\* those of the lines up to the end of the file, and it is recorded exactly
\* when it has a value.
C10_UnclosedBracket ==
    /\ pc # "throw"
    /\ j <= Len(lines)
    /\ \A k \in scanned : k >= 0 /\ k < Len(lines)
    /\ enumDefinitions = RecordsOf(stmts)
    /\ \A s \in Stmts :
          ~Closes(s) =>
              /\ \A k \in s.scanned : k >= 0 /\ k < Len(lines)
              /\ OnlyOpeningBracket(s) =>
                    s.values = Distinct(LiteralsOfLines(lines, s.line + 1, Len(lines) - 1))

\* C10 witness: the scan of an unclosed statement has reached the last line
\* and the statement is recorded with the values found
C10_Witness ==
    /\ pc = "done"
    /\ \E s \in Stmts :
          /\ ~Closes(s)
          /\ OnlyOpeningBracket(s)
          /\ ~s.single
          /\ s.balance > 0
          /\ (Len(lines) - 1) \in s.scanned
          /\ Len(s.values) = 2
          /\ \E k \in 1..Len(enumDefinitions) : enumDefinitions[k].values = s.values

----------------------------------------------------------------------------
(* Properties of a run.                                                    *)

LastOf(q) == q[Len(q)]

\* the generated modules of a schema
GeneratedOf(name) == {EnumsFileOf(name), TypesFileOf(name), IndexFileOf(name)}

\* the name-only pass of the schema at hand is the last part that ran
AfterNames == used # <<>> /\ LastOf(used).part = "names"

\* C11: the name-only pass ends in an error exactly when it found no table
\* and no enum, and then the processing of the schema has written none of
\* the enums, types and index modules of that schema.
C11_NoNamesNoModules ==
    AfterNames =>
        /\ (tableMatches = <<>> /\ enumMatches = <<>>) <=> pc = "error"
        /\ pc = "error" =>
              \A k \in 1..Len(written) :
                  written[k].schema = schema => written[k].path \notin GeneratedOf(schema)

\* C11 witness: the pass of schema p failed on a declaration file that the
\* run had written, and no module of p exists
C11_Witness ==
    /\ AfterNames
    /\ pc = "error"
    /\ schema = "p"
    /\ \E k \in 1..Len(written) : written[k].path = SchemaFileOf("p")
    /\ ~files[TypesFileOf("p")].exists
    /\ ~files[IndexFileOf("p")].exists
    /\ enumsFile = Absent

\* C12: the index file written for the schema at hand re-exports ./types and
\* ./schema, and ./enums exactly when the extractor built a record.
C12_IndexExports ==
    pc \in {"move", "eslint"} =>
        LET indexFile == files[IndexFileOf(schema)]
        IN  /\ indexFile.exists
            /\ Contains(indexFile.content, "./types")
            /\ Contains(indexFile.content, "./schema")
            /\ Contains(indexFile.content, "./enums") <=> Len(enumDefinitions) > 0

\* C12 witness: a batch run has written an index with the enums for one
\* schema and an index without them for the next
C12_Witness ==
    /\ pc = "eslint"
    /\ dirNo = 2
    /\ Len(enumDefinitions) = 0
    /\ ~Contains(files[IndexFileOf(schema)].content, "./enums")
    /\ Contains(files[IndexFileOf(schemaDirs.names[1])].content, "./enums")

\* PascalCase of an enum name, character by character: a separator is
\* dropped, the character after it (and the first) is upper-cased and every
\* other character is lower-cased
RECURSIVE EnumPascalOf(_, _)
EnumPascalOf(name, start) ==
    IF name = <<>> THEN <<>>
    ELSE IF Head(name) \in {"_", "-"} THEN EnumPascalOf(Tail(name), TRUE)
    ELSE <<IF start THEN LowerRest(UpperFirst(Head(name))) ELSE Lower(Head(name))>>
         \o EnumPascalOf(Tail(name), FALSE)

\* C13: for every record, in order, the enums module holds an enum named
\* PascalCase(enumName) + suffix with one member per value, each mapped to
\* itself, the list <name>Enums of the same values and the type <name>Type
\* derived from that list.
C13_EnumsModule ==
    enumsGenerated =>
        /\ enumsFile.exists
        /\ Len(enumsFile.content) = Len(enumDefinitions)
        /\ \A k \in 1..Len(enumDefinitions) :
              LET record == enumDefinitions[k]
                  block == enumsFile.content[k]
                  name == EnumPascalOf(record.enumName, TRUE) \o SuffixOf(schemaName)
              IN  /\ block.enum = name
                  /\ Len(block.members) = Len(record.values)
                  /\ \A m \in 1..Len(record.values) :
                        /\ block.members[m].key = record.values[m]
                        /\ block.members[m].value = record.values[m]
                  /\ block.list = name \o <<"Enums">>
                  /\ block.listValues = record.values
                  /\ block.type = name \o <<"Type">>
                  /\ block.typeOf = block.list

\* C13 witness: the enum 'xY_y' with the values a, b is written as XyYPS
C13_Witness ==
    /\ enumsGenerated
    /\ \E k \in 1..Len(enumDefinitions) :
          /\ enumDefinitions[k].enumName = <<"x", "Y", "_", "y">>
          /\ enumDefinitions[k].values = <<<<"a">>, <<"b">>>>
          /\ enumsFile.content[k].enum = <<"X", "y", "Y", "PS">>
          /\ Len(enumsFile.content[k].members) = 2

\* PascalCase of a table name: an underscore is dropped and the character
\* after it (and the first) is upper-cased
RECURSIVE TablePascalOf(_, _)
TablePascalOf(name, start) ==
    IF name = <<>> THEN <<>>
    ELSE IF Head(name) = "_" THEN TablePascalOf(Tail(name), TRUE)
    ELSE <<IF start THEN UpperFirst(Head(name)) ELSE Head(name)>>
         \o TablePascalOf(Tail(name), FALSE)

\* C14: for every table of the name-only pass, in order, the types module
\* holds the aliases <Pascal> and <Pascal>Insert; both refer to
\* <tableName><suffix> when the text holds
\* `<tableName><suffix> = <schemaVarName>.table(`, to <tableName> otherwise.
C14_TableAliases ==
    pc \in {"move", "eslint"} =>
        LET typesFile == files[TypesFileOf(schema)]
        IN  /\ typesFile.exists
            /\ Len(typesFile.content.tables) = 2 * Len(tableMatches)
            /\ \A k \in 1..Len(tableMatches) :
                  LET tableName == tableMatches[k]
                      pascal == TablePascalOf(tableName, TRUE)
                      custom == Includes(schemaContent,
                                         tableName \o SuffixOf(schema)
                                         \o <<CustomTableOf(schema)>>)
                      reference == IF custom THEN tableName \o SuffixOf(schema)
                                   ELSE tableName
                  IN  /\ typesFile.content.tables[2 * k - 1] =
                            [alias |-> pascal, shape |-> "TableSelect",
                             of |-> reference]
                      /\ typesFile.content.tables[2 * k] =
                            [alias |-> pascal \o <<"Insert">>,
                             shape |-> "TableInsert", of |-> reference]

\* C14 witness: the table t_g of the custom form has the aliases TG and
\* TGInsert, which refer to t_gPS
C14_Witness ==
    /\ pc = "eslint"
    /\ tableMatches = << <<"t", "_", "g">> >>
    /\ files[TypesFileOf(schema)].content.tables[1].alias = <<"T", "G">>
    /\ files[TypesFileOf(schema)].content.tables[2].alias = <<"T", "G", "Insert">>
    /\ files[TypesFileOf(schema)].content.tables[2].of = <<"t", "_", "g", "PS">>

\* C15: in a run with --types-only the pull command is never executed.
C15_NoPullWhenTypesOnly ==
    argv.typesOnly => \A k \in 1..Len(commands) : commands[k].command # "drizzle-kit pull"

\* C15 witness: a --types-only run of schema p has ended with status 0 after
\* writing the types of p from the file that was there
C15_Witness ==
    /\ argv.typesOnly /\ ~argv.help /\ ~argv.all
    /\ pc = "exit"
    /\ exitCode = "0"
    /\ files[TypesFileOf("p")].exists
    /\ files[FinalSchemaFileOf("p")].exists
    /\ commands = <<[command |-> "npx eslint", config |-> <<"schemas", "p">>]>>

\* C16: in a run with --disable-eslint the ESLint command is never executed.
C16_NoEslintWhenDisabled ==
    argv.disableEslint => \A k \in 1..Len(commands) : commands[k].command # "npx eslint"

\* the generated modules of every schema
AllGenerated == UNION {GeneratedOf(name) : name \in SchemaNames}

\* the step that ends processSchema in a run with --remove-schema: the
\* deletion is attempted after the types and index files of the schema were
\* written and after every write of a generated module, the run goes on, and
\* the file is gone (in every case when strict, else when the deletion
\* succeeded)
RemoveStepOk(strict) ==
    (pc = "remove" /\ argv.removeSchema) =>
        LET n == Len(written')
            op == written'[n]
        IN  /\ n = Len(written) + 1
            /\ op.op = "unlink"
            /\ op.path = FinalSchemaFileOf(schema)
            /\ \E a \in 1..(n - 1) :
                  written'[a] = FileOp("write", TypesFileOf(schema), TRUE)
            /\ \E b \in 1..(n - 1) :
                  written'[b] = FileOp("write", IndexFileOf(schema), TRUE)
            /\ enumsGenerated =>
                  \E e \in 1..(n - 1) :
                      written'[e].schema = schema /\ written'[e].path \in AllGenerated
                      /\ written'[e].path[1] = "enums.ts"
            /\ pc' \in {"batch", "exit"}
            /\ (strict \/ op.ok) => ~files'[FinalSchemaFileOf(schema)].exists

CreateConfigStepOk ==
    pc = "config" =>
        LET template == files[TEMPLATE_CONFIG_FILE]
            config == files'[CONFIG_FILE]
        IN  IF files[CONFIG_FILE].exists \/ ~template.exists
            THEN files' = files /\ written' = written
            ELSE /\ \A f \in Paths \ {CONFIG_FILE} : files'[f] = files[f]
                 /\ CONFIG_FILE = ConfigFileOf(schemaName)
                 /\ config.exists
                 /\ Len(config.content) = Len(template.content)
                 /\ \A k \in 1..Len(template.content) :
                       config.content[k] =
                           IF template.content[k] = "random_schema_name"
                           THEN schemaName ELSE template.content[k]

\* C18: createConfigFile leaves an existing config file unchanged and writes
\* nothing; only a missing one is created from the template, every
\* `random_schema_name` replaced by the schema name.
C18_ConfigCreatedOnce == [][CreateConfigStepOk]_vars

\* C18 witness: the config file of p was missing and has been written with
\* both placeholders of the template replaced
C18_Witness ==
    /\ written # <<>>
    /\ written[1] = [op |-> "write", path |-> ConfigFileOf("p"), ok |-> TRUE,
                     schema |-> "p"]
    /\ files[ConfigFileOf("p")].content =
           <<"schemaFilter: ['", "p", "'], out: './schemas/", "p", "/migrations'">>

IsConfigUse(e) == e.part = "createConfigFile"

\* the schemas that processSchema was called for, in order
Processed ==
    LET calls == SelectSeq(used, IsConfigUse)
    IN  [k \in 1..Len(calls) |-> calls[k].schema]

\* C19: a run with --all and no schema name that has ended has failed only
\* inside the processing of a schema, or has processed every directory of
\* ./schemas in listing order and exited with status 0.
C19_BatchProcessesAll ==
    (argv.all /\ argv.name = Undefined /\ ~argv.help /\ schemaDirs.ok
     /\ pc \in {"exit", "error"}) =>
        /\ pc = "error" => used # <<>>
        /\ pc = "exit" => exitCode = "0" /\ Processed = schemaDirs.names

\* C20: every part of a run works with the constants derived from the name
\* of the schema that is being processed.
C20_SameConstants ==
    \A k \in 1..Len(used) : used[k].constants = used[k].schema

----------------------------------------------------------------------------
(* Further properties of the renamer.                                      *)

\* C21: when the renamer has finished, its output is one line per input
\* line, each ended by a line feed and in the same order; equal input lines
\* give equal output lines wherever they stand, and an input line without
\* searchPattern is emitted unchanged.
C21_LineForLine ==
    pc = "renamed" =>
        /\ Len(OutputLines) = Len(lines) + 1
        /\ OutputLines[Len(lines) + 1] = <<>>
        /\ Count(updatedContent, NL) = Len(lines)
        /\ \A k, m \in 1..Len(lines) :
              lines[k] = lines[m] => OutputLines[k] = OutputLines[m]
        /\ \A k \in 1..Len(lines) :
              ~Includes(lines[k], searchPattern) => OutputLines[k] = lines[k]

\* C21 witness: `nInPSchema`, a blank line and `9` have become `nPS`, a
\* blank line and `9`, each with its line feed
C21_Witness ==
    /\ pc = "renamed"
    /\ schemaContent = <<"n">> \o searchPattern \o <<NL, NL, "9">>
    /\ updatedContent = <<"n", "PS", NL, NL, "9", NL>>

\* one iteration of the scan of a line: with no occurrence at or after the
\* cursor the scan of the line ends; otherwise the cursor moves forward, past
\* the match when the occurrence qualifies and to one position past the
\* start of the match when it does not
ScanStepAdvances ==
    (/\ pc = "rename"
     /\ lineNo < Len(lines)
     /\ lines[lineNo + 1] # <<>>
     /\ index < Len(lines[lineNo + 1])) =>
        LET line == lines[lineNo + 1]
            hits == {k \in index..(Len(line) - 1) : OccursAt(line, k)}
        IN  IF hits = {}
            THEN pc' = "eol" /\ index' = index
            ELSE LET m == Min(hits)
                 IN  /\ pc' = "rename"
                     /\ lineNo' = lineNo
                     /\ index' > index
                     /\ index' = IF Qualifies(line, m)
                                 THEN m + Len(searchPattern) ELSE m + 1

\* C22: the cursor strictly increases at every iteration of the scan of a
\* line, past the match on a qualifying occurrence and by one position past
\* the match start on a non-qualifying one, the scan of a line ends when no
\* occurrence is found at or after the cursor, and the renamer returns.
C22_ScanTerminates == [][ScanStepAdvances]_vars /\ <>(pc = "renamed")

\* C22 witness: the scan of `InPSchema nInPSchema` has passed a
\* non-qualifying and a qualifying occurrence and the cursor stands at the
\* end of the line
C22_Witness ==
    /\ pc = "rename"
    /\ lineNo = 0
    /\ lines = <<searchPattern \o <<" ", "n">> \o searchPattern>>
    /\ index = Len(lines[1])
    /\ updatedLine = searchPattern \o <<" ", "n", "PS">>

----------------------------------------------------------------------------
(* Further properties of the enum extractor and of the name-only pass.     *)

\* 1 plus the opening brackets minus the closing brackets of the lines with
\* 0-based index from + 1, ..., to
BalanceOver(from, to) ==
    LET last == IF to + 1 > Len(lines) THEN Len(lines) ELSE to + 1
        text == Join(SubSeq(lines, from + 2, last))
    IN  1 + Count(text, "[") - Count(text, "]")

\* the 0-based indices of the non-empty lines after line `from` that no
\* line bringing the balance to 0 or below precedes
OpenLines(from) ==
    {k \in (from + 1)..(Len(lines) - 1) :
        /\ lines[k + 1] # <<>>
        /\ \A m \in (from + 1)..(k - 1) : BalanceOver(from, m) > 0}

\* C23: during a multi-line scan the balance is 1 plus the brackets of all
\* characters of the lines read so far; once it is over, the lines it read
\* are the non-empty lines up to the first that brings the balance to 0 or
\* below, and those searched for literals are the ones after which the
\* balance was >= 0.
C23_BalanceOverWholeLines ==
    /\ pc = "multi" => bracketBalance = BalanceOver(i, j)
    /\ \A s \in Stmts :
          ~s.single =>
              /\ s.scanned = OpenLines(s.line)
              /\ s.litLines = {k \in s.scanned : BalanceOver(s.line, k) >= 0}
              /\ s.balance = BalanceOver(s.line, Len(lines) - 1)
                 \/ /\ s.balance <= 0
                    /\ \E k \in s.scanned :
                          /\ s.balance = BalanceOver(s.line, k)
                          /\ \A m \in s.scanned : m <= k

\* C23 witness: after the statement line come `'a'`, `] ]` and `'b'`: the
\* second and third lines were read, only the second was searched, the
\* balance ended at -1 and the fourth line was not read
C23_Witness ==
    /\ pc = "enums"
    /\ Len(lines) = 4
    /\ lines[3] = <<"]", "]">>
    /\ lines[4] = LitB
    /\ \E s \in Stmts :
          /\ ~s.single
          /\ s.line = 0
          /\ s.scanned = {1, 2}
          /\ s.litLines = {1}
          /\ s.balance = -1

\* the 1-based indices of the lines that hold a table (an enum) statement
TableLines ==
    {k \in 1..Len(lines) : \/ Includes(lines[k], CustomTableStmt)
                           \/ Includes(lines[k], PgTableStmt)}

EnumLines ==
    {k \in 1..Len(lines) : HasCustomEnum(lines[k]) \/ HasPgEnum(lines[k])}

\* the n-th smallest element of a set of numbers
RECURSIVE Nth(_, _)
Nth(set, n) == IF n = 1 THEN Min(set) ELSE Nth(set \ {Min(set)}, n - 1)

\* C24: after the name-only pass each list has one name for every line that
\* holds a statement of its kind, however many the line holds, in the order
\* of the lines and declared on that line; a line that holds a table
\* statement gives its enum name as well.
C24_OneNamePerLine ==
    pc \in {"done", "error"} =>
        /\ Len(tableMatches) = Cardinality(TableLines)
        /\ Len(enumMatches) = Cardinality(EnumLines)
        /\ \A n \in 1..Len(tableMatches) :
              LET line == lines[Nth(TableLines, n)]
              IN  \/ tableMatches[n] = <<"t">> /\ Includes(line, CustomTableStmt)
                  \/ tableMatches[n] = <<"g">> /\ Includes(line, PgTableStmt)
        /\ \A n \in 1..Len(enumMatches) :
              LET line == lines[Nth(EnumLines, n)]
              IN  \/ enumMatches[n] = <<"u">> /\ HasCustomEnum(line)
                  \/ enumMatches[n] = <<"v">> /\ HasPgEnum(line)

\* C24 witness: the first line holds two table statements and an enum
\* statement and gives one table name and one enum name
C24_Witness ==
    /\ pc = "done"
    /\ lines = <<PgTableStmt \o CustomTableStmt \o PgEnumStmt>>
    /\ tableMatches = <<<<"t">>>>
    /\ enumMatches = <<<<"v">>>>

----------------------------------------------------------------------------
(* Further properties of a run.                                            *)

\* the positions of the extractor and of the name-only pass
ExtractPhases == {"enums", "multi", "names"}

\* the renamer has been called for the schema at hand, after createConfigFile
\* was called for it
RenamerRan ==
    \E k \in 1..Len(used) :
        /\ used[k].part = "processSchemaFile" /\ used[k].schema = schema
        /\ \A m \in (k + 1)..Len(used) : used[m].part # "createConfigFile"

\* the steps around the renamer: it is entered after a successful pull with
\* the pulled text or, in a types-only run, from the search for the file when
\* and only when the text read holds the search pattern of the schema; what
\* it returns is what a full run reads back and what a types-only run hands
\* to the extractor
RenamerStepOk ==
    /\ (pc = "pull" /\ pc' # "error") =>
          /\ pc' = "rename"
          /\ schemaContent' = files'[SchemaFileOf(schema)].content
    /\ (pc = "verify" /\ pc' # "error") =>
          LET content == files[RenamedPath].content
          IN  /\ schemaContent' = content
              /\ pc' = IF argv.typesOnly /\ Includes(content, SearchPatternOf(schema))
                       THEN "rename" ELSE "enums"
    /\ pc = "renamed" =>
          IF argv.typesOnly
          THEN pc' = "enums" /\ schemaContent' = updatedContent
          ELSE pc' = "verify" /\ files'[SchemaFileOf(schema)] = Present(updatedContent)
    /\ (pc' = "rename" /\ pc \notin {"rename", "eol"}) =>
          \/ pc = "pull" /\ ~argv.typesOnly
          \/ pc = "verify" /\ argv.typesOnly

\* C25: in a full run the extractor and the name-only pass work on the text
\* that the renamer made of the pulled file, the pull having come first; in
\* a types-only run the renamer is entered if and only if the text read
\* holds searchPattern, and its output is the text handed on.
C25_RenamerFirst ==
    /\ [](pc \in ExtractPhases =>
            /\ lines = Split(schemaContent)
            /\ ~argv.typesOnly =>
                  /\ RenamerRan
                  /\ schemaContent = updatedContent
                  /\ \E c \in 1..Len(commands) :
                        commands[c] = [command |-> "drizzle-kit pull",
                                       config |-> ConfigFileOf(schema)])
    /\ [][RenamerStepOk]_vars

\* C25 witness: a types-only run found `tInPSchema` in the file, and the
\* extractor starts on the renamer's output, which holds `tPS`
C25_Witness ==
    /\ argv.typesOnly
    /\ pc = "enums"
    /\ i = 0
    /\ RenamerRan
    /\ schemaContent = updatedContent
    /\ lines[1] = <<EXPORT_CONST, "t", "PS", CUSTOM_TABLE>>

\* the search for the declaration file: a types-only run reads the file of
\* the final location when it is there, else that of the migrations
\* directory; a full run reads that of the migrations directory; a run that
\* finds no file fails, having written no generated module for the schema
VerifyStepOk ==
    pc = "verify" =>
        LET final == files[FinalSchemaFileOf(schema)]
            pulled == files[SchemaFileOf(schema)]
        IN  IF argv.typesOnly /\ final.exists
            THEN pc' # "error" /\ schemaContent' = final.content
            ELSE IF pulled.exists
            THEN pc' # "error" /\ schemaContent' = pulled.content
            ELSE /\ pc' = "error"
                 /\ files' = files
                 /\ written' = written
                 /\ enumsFile' = enumsFile
                 /\ \A k \in 1..Len(written) :
                       written[k].schema = schema =>
                           written[k].path \notin AllGenerated

\* C26: a types-only run reads the declaration file from the final location
\* when it is there, otherwise from the migrations directory, and fails
\* before any module is generated when it is at neither; a full run reads
\* it from the migrations directory only.
C26_WhereTheFileIsRead == [][VerifyStepOk]_vars

\* C26 witness: a types-only run of p found no file at the final location
\* and has handed the one of the migrations directory to the extractor
C26_Witness ==
    /\ argv.typesOnly
    /\ ~argv.all
    /\ pc = "enums"
    /\ i = 0
    /\ ~files[FinalSchemaFileOf("p")].exists
    /\ files[SchemaFileOf("p")].exists
    /\ schemaContent = files[SchemaFileOf("p")].content
    /\ schemaContent # <<>>

----------------------------------------------------------------------------
(* The renamer applied to its own output.                                  *)

\* C27: when the renamer has finished, no line of its output holds a
\* qualifying occurrence of searchPattern, so that renaming the output
\* again would leave every line as it is.
C27_NoQualifyingOccurrenceLeft ==
    pc = "renamed" =>
        \A k \in 1..Len(lines) :
            /\ \A p \in 0..Len(OutputLines[k]) : ~QualifyingAt(OutputLines[k], p)
            /\ Renamed(OutputLines[k]) = OutputLines[k]

----------------------------------------------------------------------------
(* The identifiers of the types module.                                    *)

\* the texts that follow the identifier of a declaration
DeclKeywords ==
    {PG_TABLE, PG_ENUM} \cup {CustomTableOf(name) : name \in SchemaNames}
                        \cup {CustomEnumOf(name) : name \in SchemaNames}

\* the identifiers that a line declares with `export const <id> =`
DeclaredOn(line) ==
    {SubSeq(line, s + 1, WordRunEnd(line, s + 1)) :
        s \in {c \in 1..Len(line) :
                  /\ line[c] = EXPORT_CONST
                  /\ WordRunEnd(line, c + 1) >= c + 1
                  /\ At(line, WordRunEnd(line, c + 1) + 1) \in DeclKeywords}}

\* the identifiers that the text at hand declares
Declared == UNION {DeclaredOn(lines[k]) : k \in 1..Len(lines)}

\* C28: once the types module of a single-schema run is written, every
\* identifier it refers to as `schema.<reference>` is declared by a statement
\* of the declaration text.
C28_ReferencesDeclared ==
    (pc \in {"move", "eslint"} /\ ~argv.all) =>
        LET content == files[TypesFileOf(schema)].content
        IN  /\ \A k \in 1..Len(content.tables) : content.tables[k].of \in Declared
            /\ \A k \in 1..Len(content.enums) : content.enums[k].of \in Declared

\* the aliases that the written types module declares for the k-th table
\* and for the k-th enum of the name-only pass
TableAliasNames(content, k) ==
    {content.tables[2 * k - 1].alias, content.tables[2 * k].alias}

EnumAliasNames(content, k) == {content.enums[k].alias}

\* C29: once the types module of a single-schema run is written, the
\* aliases of two distinct names of the name-only pass, tables or enums,
\* have no identifier in common.
C29_AliasesDistinct ==
    (pc \in {"move", "eslint"} /\ ~argv.all) =>
        LET content == files[TypesFileOf(schema)].content
            T == 1..Len(tableMatches)
            E == 1..Len(enumMatches)
        IN  /\ \A a, b \in T :
                  tableMatches[a] # tableMatches[b] =>
                      TableAliasNames(content, a) \cap TableAliasNames(content, b) = {}
            /\ \A a, b \in E :
                  enumMatches[a] # enumMatches[b] =>
                      EnumAliasNames(content, a) \cap EnumAliasNames(content, b) = {}
            /\ \A a \in T, b \in E :
                  tableMatches[a] # enumMatches[b] =>
                      TableAliasNames(content, a) \cap EnumAliasNames(content, b) = {}

----------------------------------------------------------------------------
(* The modules behind the index file.                                      *)

\* the module that an export of the index file of a schema names is a file
\* of the directory of the schema
ModuleExists(name, export) ==
    CASE export = "./types" -> files[TypesFileOf(name)].exists
      [] export = "./schema" -> files[FinalSchemaFileOf(name)].exists
      [] export = "./enums" -> enumsFile.exists
      [] OTHER -> FALSE

\* C30: when a single-schema run has ended with status 0 after processing
\* the schema, every module that the index file of the schema re-exports
\* exists.
C30_IndexExportsExist ==
    (/\ pc = "exit" /\ exitCode = "0"
     /\ ~argv.help /\ ~argv.all /\ argv.name # Undefined) =>
        LET exports == files[IndexFileOf(schema)].content
        IN  /\ files[IndexFileOf(schema)].exists
            /\ \A k \in 1..Len(exports) : ModuleExists(schema, exports[k])

====
